---------------------------- MODULE Spec2Model ----------------------------
(***************************************************************************)
(* A model of the BigNum class of BigNumCalculator.cpp: sign-magnitude     *)
(* decimal integers (digits least significant first, is_negative), their  *)
(* constructors, comparison, +, -, *, /, %, the modular operations, the    *)
(* extended Euclidean algorithm and the modular inverse.  Every operation  *)
(* is computed on the digit sequences the way the code computes it; the    *)
(* integer value of a BigNum (Val) is used only to state the properties.   *)
(***************************************************************************)
EXTENDS Integers, Sequences, FiniteSets, TLC

(***************************************************************************)
(* Bounds of the model.                                                    *)
(***************************************************************************)
\* magnitude of the first operand of a command
MaxA == 110
\* magnitude of the second operand of a command
MaxB == 12
\* magnitude of the first two operands of the three-operand (modular)
\* commands
MaxT == 7
\* magnitude of a modulus
MaxM == 6
\* largest exponent of powMod
MaxE == 5
\* magnitude of the operands of the traced +, - and < calls
MaxR == 11
\* cap on the length of a traced chain of calls
MaxChain == 8

VARIABLES
    op,      \* "ready" for a command, or the operation of the command just run
    a,       \* the first operand (*this): the value entered or kept last
    b,       \* the command's second operand
    m,       \* the command's modulus
    res,     \* what the command returned: a BigNum, or the exception thrown
    x,       \* extendedGCD's output x
    y,       \* extendedGCD's output y
    pc,      \* traced call: "idle", "call", "ret" or "done"
    frame,   \* traced call: the running call [fn, lhs, rhs]
    stack,   \* traced call: the callers waiting for the running call
    ret,     \* traced call: the value returned last
    trail    \* traced call: every call made since the top-level call

vars == <<op, a, b, m, res, x, y, pc, frame, stack, ret, trail>>

calcVars == <<op, a, b, m, res, x, y>>

traceVars == <<pc, frame, stack, ret, trail>>

(***************************************************************************)
(* Representation.                                                         *)
(***************************************************************************)
\* the two fields of the class
BigNum(d, n) == [digits |-> d, neg |-> n]

\* a thrown runtime_error
Throw(what) == [what |-> what]

DivisionByZero == Throw("Division by zero")

NoInverse == Throw("Modular inverse does not exist")

IsExc(v) == DOMAIN v = {"what"}

Last(d) == d[Len(d)]

Front(d) == SubSeq(d, 1, Len(d) - 1)

\* removeLeadingZeros with its loop left out
removeLeadingZeros_keep(d) == d

RECURSIVE removeLeadingZeros(_)
removeLeadingZeros(d) ==
    IF Len(d) > 1 /\ Last(d) = 0
    THEN removeLeadingZeros(Front(d))
    ELSE d

\* BigNum()
BigNumDefault == BigNum(<<0>>, FALSE)

\* a result with digits d and sign n: if (isZero()) is_negative = false
ClearSignIfZero(d, n) == BigNum(d, IF Len(d) = 1 /\ d[1] = 0 THEN FALSE ELSE n)

isZero(n) == Len(n.digits) = 1 /\ n.digits[1] = 0

isOne(n) == ~n.neg /\ Len(n.digits) = 1 /\ n.digits[1] = 1

\* the characters '0'..'9'
DigitChars == <<"0", "1", "2", "3", "4", "5", "6", "7", "8", "9">>

IsDigitChar(c) == \E i \in 1..10 : DigitChars[i] = c

\* str[i] - '0'
DigitOf(c) == (CHOOSE i \in 1..10 : DigitChars[i] = c) - 1

\* the loop of BigNum(const string&): i runs from the last character down to
\* start (1-based here), pushing the digit characters and skipping the others
RECURSIVE ParseLoop(_, _, _, _)
ParseLoop(str, i, start, acc) ==
    IF i < start
    THEN acc
    ELSE ParseLoop(str, i - 1, start,
                   IF IsDigitChar(str[i]) THEN Append(acc, DigitOf(str[i])) ELSE acc)

\* BigNum(const string &str)
FromString(str) ==
    IF Len(str) = 0
    THEN BigNum(<<0>>, FALSE)
    ELSE LET minus  == str[1] = "-"
             start  == IF minus THEN 2 ELSE 1
             pushed == ParseLoop(str, Len(str), start, <<>>)
         IN  IF pushed = <<>>
             THEN BigNum(<<0>>, FALSE)
             ELSE ClearSignIfZero(removeLeadingZeros(pushed), minus)

\* the while (num > 0) loop of BigNum(long long)
RECURSIVE IntLoop(_, _)
IntLoop(num, acc) ==
    IF num > 0
    THEN IntLoop(num \div 10, Append(acc, num % 10))
    ELSE acc

\* BigNum(long long num)
FromInt(num) ==
    LET n == IF num < 0 THEN 0 - num ELSE num
    IN  IF n = 0
        THEN BigNum(<<0>>, FALSE)
        ELSE BigNum(IntLoop(n, <<>>), num < 0)

(***************************************************************************)
(* Comparison and unary minus.                                             *)
(***************************************************************************)
\* operator==
Eq(t, o) == t.neg = o.neg /\ t.digits = o.digits

\* unary operator-
Negate(t) == IF ~isZero(t) THEN BigNum(t.digits, ~t.neg) ELSE t

\* the digit loop of operator<, from the most significant digit down
RECURSIVE LessLoop(_, _, _)
LessLoop(d, e, i) ==
    IF i < 1
    THEN FALSE
    ELSE IF d[i] # e[i]
         THEN d[i] < e[i]
         ELSE LessLoop(d, e, i - 1)

\* operator< on two non-negative values (the part after the sign tests)
LessMagnitude(t, o) ==
    IF Len(t.digits) # Len(o.digits)
    THEN Len(t.digits) < Len(o.digits)
    ELSE LessLoop(t.digits, o.digits, Len(t.digits))

\* operator<
RECURSIVE Less(_, _)
Less(t, o) ==
    IF t.neg # o.neg
    THEN t.neg
    ELSE IF t.neg
         THEN Less(Negate(o), Negate(t))
         ELSE LessMagnitude(t, o)

\* operator<=
LessEq(t, o) == Less(t, o) \/ Eq(t, o)

\* operator>
Greater(t, o) == ~LessEq(t, o)

\* operator>=
GreaterEq(t, o) == ~Less(t, o)

(***************************************************************************)
(* Addition and subtraction.                                               *)
(***************************************************************************)
Max(i, j) == IF i > j THEN i ELSE j

\* the carry loop of operator+: for (i = 0; i < maxSize || carry; i++)
RECURSIVE AddLoop(_, _, _, _, _)
AddLoop(d, e, i, carry, acc) ==
    IF i <= Max(Len(d), Len(e)) \/ carry # 0
    THEN LET sum == carry + (IF i <= Len(d) THEN d[i] ELSE 0)
                          + (IF i <= Len(e) THEN e[i] ELSE 0)
         IN  AddLoop(d, e, i + 1, sum \div 10, Append(acc, sum % 10))
    ELSE acc

\* the same-sign branch of operator+
AddSameSign(t, o) ==
    ClearSignIfZero(removeLeadingZeros(AddLoop(t.digits, o.digits, 1, 0, <<>>)),
                    t.neg)

\* the borrow loop of operator-
RECURSIVE SubLoop(_, _, _, _, _)
SubLoop(d, e, i, borrow, acc) ==
    IF i <= Len(d)
    THEN LET diff == d[i] - borrow - (IF i <= Len(e) THEN e[i] ELSE 0)
         IN  IF diff < 0
             THEN SubLoop(d, e, i + 1, 1, Append(acc, diff + 10))
             ELSE SubLoop(d, e, i + 1, 0, Append(acc, diff))
    ELSE acc

\* the digit-wise part of operator-, reached with 0 <= other <= *this
SubMagnitude(t, o) ==
    BigNum(removeLeadingZeros(SubLoop(t.digits, o.digits, 1, 0, <<>>)), FALSE)

RECURSIVE Plus(_, _)
RECURSIVE Minus(_, _)

\* operator+
Plus(t, o) ==
    IF t.neg = o.neg
    THEN AddSameSign(t, o)
    ELSE IF t.neg
         THEN Minus(o, Negate(t))
         ELSE Minus(t, Negate(o))

\* binary operator-
Minus(t, o) ==
    IF t.neg # o.neg
    THEN Plus(t, Negate(o))
    ELSE IF t.neg
         THEN Minus(Negate(o), Negate(t))
         ELSE IF Less(t, o)
              THEN Negate(Minus(o, t))
              ELSE SubMagnitude(t, o)


(***************************************************************************)
(* Multiplication.                                                         *)
(***************************************************************************)
\* the body of the inner loop of operator*, on 1-based positions: the product
\* of digits i and j goes to position i+j-1, its carry to position i+j
MulStep(r, d, e, i, j) ==
    LET r1 == [r  EXCEPT ![i + j - 1] = @ + d[i] * e[j]]
        r2 == [r1 EXCEPT ![i + j]     = @ + r1[i + j - 1] \div 10]
    IN  [r2 EXCEPT ![i + j - 1] = @ % 10]

\* the two nested loops of operator*
RECURSIVE MulLoop(_, _, _, _, _)
MulLoop(r, d, e, i, j) ==
    IF i > Len(d)
    THEN r
    ELSE IF j > Len(e)
         THEN MulLoop(r, d, e, i + 1, 1)
         ELSE MulLoop(MulStep(r, d, e, i, j), d, e, i, j + 1)

\* operator*
Times(t, o) ==
    ClearSignIfZero(
        removeLeadingZeros(
            MulLoop([k \in 1..(Len(t.digits) + Len(o.digits)) |-> 0],
                    t.digits, o.digits, 1, 1)),
        t.neg # o.neg)

(***************************************************************************)
(* Division and modulo.                                                    *)
(***************************************************************************)
\* the loop with >= turned into >
RECURSIVE CountLoop_strict(_, _, _, _)
CountLoop_strict(remainder, div, count, qdigits) ==
    IF Greater(remainder, div)
    THEN CountLoop_strict(Minus(remainder, div), div, count + 1, qdigits)
    ELSE [remainder |-> remainder, qdigits |-> <<count>> \o qdigits]

\* while (remainder >= div) { remainder = remainder - div; count++; }
\* and then quotient.digits.insert(quotient.digits.begin(), count)
RECURSIVE CountLoop(_, _, _, _)
CountLoop(remainder, div, count, qdigits) ==
    IF GreaterEq(remainder, div)
    THEN CountLoop(Minus(remainder, div), div, count + 1, qdigits)
    ELSE [remainder |-> remainder, qdigits |-> <<count>> \o qdigits]

\* the long-division loop of operator/, from the most significant digit of
\* *this down; st holds remainder and quotient.digits
RECURSIVE DivLoop(_, _, _, _)
DivLoop(d, div, i, st) ==
    IF i < 1
    THEN st.qdigits
    ELSE DivLoop(d, div, i - 1,
                 CountLoop(Plus(Times(st.remainder, FromInt(10)), FromInt(d[i])),
                           div, 0, st.qdigits))

\* quotient.digits when the loop of operator/ ends, before removeLeadingZeros
QuotientDigits(t, divisor) ==
    DivLoop(t.digits, BigNum(divisor.digits, FALSE), Len(t.digits),
            [remainder |-> FromInt(0), qdigits |-> FromInt(0).digits])

\* operator/ after its test for a zero divisor
DivNonZero(t, divisor) ==
    IF isZero(t)
    THEN FromInt(0)
    ELSE IF Less(BigNum(t.digits, FALSE), BigNum(divisor.digits, FALSE))
         THEN FromInt(0)
         ELSE ClearSignIfZero(removeLeadingZeros(QuotientDigits(t, divisor)),
                              t.neg # divisor.neg)

\* operator/ returning zero for a zero divisor
Div_zero(t, divisor) ==
    IF isZero(divisor) THEN FromInt(0) ELSE DivNonZero(t, divisor)

\* operator/
Div(t, divisor) ==
    IF isZero(divisor) THEN DivisionByZero ELSE DivNonZero(t, divisor)

\* the correction left out
CorrectRemainder_none(remainder, divisor) == remainder

\* the correction adding the divisor with its sign
CorrectRemainder_signed(remainder, divisor) ==
    IF remainder.neg THEN Plus(remainder, divisor) ELSE remainder

\* if (remainder.is_negative) remainder = remainder + |divisor|
CorrectRemainder(remainder, divisor) ==
    IF remainder.neg
    THEN Plus(remainder, IF divisor.neg THEN Negate(divisor) ELSE divisor)
    ELSE remainder

\* operator% once quotient = *this / divisor is evaluated
ModOfQuotient(t, divisor, quotient) ==
    IF IsExc(quotient)
    THEN quotient
    ELSE CorrectRemainder(Minus(t, Times(quotient, divisor)), divisor)

\* operator%
Mod(t, divisor) ==
    IF isZero(divisor)
    THEN DivisionByZero
    ELSE ModOfQuotient(t, divisor, Div(t, divisor))

(***************************************************************************)
(* Modular arithmetic.                                                     *)
(***************************************************************************)
addMod(t, o, mm) == Mod(Plus(t, o), mm)

mulMod(t, o, mm) == Mod(Times(t, o), mm)

\* the while (!e.isZero()) loop of powMod; it runs with m # 0, so that none
\* of its operations throws
RECURSIVE PowLoop(_, _, _, _)
PowLoop(result, base, e, mm) ==
    IF isZero(e)
    THEN result
    ELSE PowLoop(IF e.digits[1] % 2 = 1 THEN mulMod(result, base, mm) ELSE result,
                 mulMod(base, base, mm),
                 Div(e, FromInt(2)),
                 mm)

\* powMod once base = *this % m is evaluated
PowFromBase(base, exp, mm) ==
    IF IsExc(base) THEN base ELSE PowLoop(FromInt(1), base, exp, mm)

\* powMod without its m.isOne() test
powMod_general(t, exp, mm) == PowFromBase(Mod(t, mm), exp, mm)

\* powMod
powMod(t, exp, mm) ==
    IF isOne(mm) THEN FromInt(0) ELSE PowFromBase(Mod(t, mm), exp, mm)

\* the back-substitution of extendedGCD: x = y1; y = x1 - (a / b) * y1
BackSubstitute(r, quotient) ==
    [gcd |-> r.gcd, x |-> r.y, y |-> Minus(r.x, Times(quotient, r.y))]

\* extendedGCD: the returned gcd and the outputs x and y
RECURSIVE extendedGCD(_, _)
extendedGCD(p, q) ==
    IF isZero(q)
    THEN [gcd |-> p, x |-> FromInt(1), y |-> FromInt(0)]
    ELSE BackSubstitute(extendedGCD(q, Mod(p, q)), Div(p, q))

\* if (result.is_negative) result = result + m
ShiftNonNegative(result, mm) ==
    IF IsExc(result) THEN result
    ELSE IF result.neg THEN Plus(result, mm) ELSE result

\* the gcd test left out
InverseFromGCD_unchecked(g, mm) == ShiftNonNegative(Mod(g.x, mm), mm)

\* modInverse once extendedGCD has returned
InverseFromGCD(g, mm) ==
    IF ~isOne(g.gcd) THEN NoInverse ELSE ShiftNonNegative(Mod(g.x, mm), mm)

\* modInverse once *this % m is evaluated
InverseOfReduced(reduced, mm) ==
    IF IsExc(reduced)
    THEN reduced
    ELSE InverseFromGCD(extendedGCD(reduced, mm), mm)

\* modInverse
modInverse(t, mm) == InverseOfReduced(Mod(t, mm), mm)

(***************************************************************************)
(* The integer a BigNum stands for, and integer arithmetic to compare with.*)
(***************************************************************************)
RECURSIVE DigitsVal(_, _)
DigitsVal(d, i) == IF i > Len(d) THEN 0 ELSE d[i] + 10 * DigitsVal(d, i + 1)

Val(n) == IF n.neg THEN 0 - DigitsVal(n.digits, 1) ELSE DigitsVal(n.digits, 1)

Abs(i) == IF i < 0 THEN 0 - i ELSE i

\* the quotient rounded toward zero
TruncDiv(i, j) ==
    IF (i < 0) = (j < 0) THEN Abs(i) \div Abs(j) ELSE 0 - (Abs(i) \div Abs(j))

\* the remainder in 0..|j|-1
EuclidMod(i, j) == i % Abs(j)

RECURSIVE Gcd(_, _)
Gcd(i, j) == IF j = 0 THEN Abs(i) ELSE Gcd(Abs(j), Abs(i) % Abs(j))

\* i^e by repeated multiplication
RECURSIVE NaivePow(_, _)
NaivePow(i, e) == IF e = 0 THEN 1 ELSE i * NaivePow(i, e - 1)

\* digits non-empty, each in 0..9, no leading zero, no negative zero
Canonical(n) ==
    /\ DOMAIN n = {"digits", "neg"}
    /\ Len(n.digits) >= 1
    /\ \A i \in 1..Len(n.digits) : n.digits[i] \in 0..9
    /\ (Len(n.digits) > 1 => Last(n.digits) # 0)
    /\ (isZero(n) => ~n.neg)


(***************************************************************************)
(* The calculator: a value is entered (from text or from a native integer) *)
(* or kept from the last result, and a command applies one operation to it *)
(* and to fresh operands.                                                  *)
(***************************************************************************)
\* texts entered: the empty text, a lone sign, a negative zero, leading
\* zeros, characters that are not digits, a sign after the first character
Texts ==
    { <<>>, <<"-">>, <<"-", "0">>, <<"0", "0", "7">>, <<"-", "0", "1", "0">>,
      <<"1", "x", "2">>, <<"-", "-", "5">>, <<"x">>, <<"+", "3">>, <<"2", "1">> }

Natives(k) == { FromInt(n) : n \in (0 - k)..k }

Zero == BigNumDefault

InitCalc ==
    /\ op = "ready"
    /\ a = Zero
    /\ b = Zero
    /\ m = Zero
    /\ res = Zero
    /\ x = Zero
    /\ y = Zero

InitTrace ==
    /\ pc = "idle"
    /\ frame = [fn |-> "none", lhs |-> Zero, rhs |-> Zero]
    /\ stack = <<>>
    /\ ret = Zero
    /\ trail = <<>>

Init == InitCalc /\ InitTrace

\* a command ran on operands q (second) and mm (modulus) and returned r
Ran(name, q, mm, r) ==
    /\ op = "ready"
    /\ op' = name
    /\ b' = q
    /\ m' = mm
    /\ res' = r
    /\ UNCHANGED <<a, x, y, traceVars>>

\* cin >> a: the value is built from text
EnterText ==
    \E t \in Texts :
        /\ op = "ready"
        /\ a' = FromString(t)
        /\ UNCHANGED <<op, b, m, res, x, y, traceVars>>

\* the value is built from a native integer
EnterNative ==
    \E v \in Natives(MaxA) :
        /\ op = "ready"
        /\ a' = v
        /\ UNCHANGED <<op, b, m, res, x, y, traceVars>>

CmdNegate == Ran("neg", Zero, Zero, Negate(a))

CmdPlus == \E q \in Natives(MaxB) : Ran("+", q, Zero, Plus(a, q))

CmdMinus == \E q \in Natives(MaxB) : Ran("-", q, Zero, Minus(a, q))

CmdTimes == \E q \in Natives(MaxB) : Ran("*", q, Zero, Times(a, q))

CmdDiv == \E q \in Natives(MaxB) : Ran("/", q, Zero, Div(a, q))

CmdMod == \E q \in Natives(MaxB) : Ran("%", q, Zero, Mod(a, q))

\* the first operand is within the bound of the three-operand commands
Small == Val(a) \in (0 - MaxT)..MaxT

CmdAddMod ==
    \E q \in Natives(MaxT), mm \in Natives(MaxM) :
        Small /\ Ran("addmod", q, mm, addMod(a, q, mm))

CmdMulMod ==
    \E q \in Natives(MaxT), mm \in Natives(MaxM) :
        Small /\ Ran("mulmod", q, mm, mulMod(a, q, mm))

CmdPowMod ==
    \E e \in 0..MaxE, mm \in Natives(MaxM) :
        Small /\ Ran("pow", FromInt(e), mm, powMod(a, FromInt(e), mm))

CmdModInverse == \E mm \in Natives(MaxM) : Ran("inverse", Zero, mm, modInverse(a, mm))

\* extendedGCD ran on a and q and returned g
RanGCD(q, g) ==
    /\ op = "ready"
    /\ op' = "egcd"
    /\ b' = q
    /\ m' = Zero
    /\ res' = g.gcd
    /\ x' = g.x
    /\ y' = g.y
    /\ UNCHANGED <<a, traceVars>>

CmdExtendedGCD == \E q \in Natives(MaxB) : RanGCD(q, extendedGCD(a, q))

\* the values a finished command leaves to be used again
Produced == IF op = "egcd" THEN {res, x, y} ELSE {res}

\* the command is over: its operands and results go out of scope
Over ==
    /\ op # "ready"
    /\ op' = "ready"
    /\ b' = Zero
    /\ m' = Zero
    /\ res' = Zero
    /\ x' = Zero
    /\ y' = Zero
    /\ UNCHANGED traceVars

\* the next command runs on a value the last one produced, when that value
\* is within the bound on the first operand
Keep ==
    \E v \in Produced :
        /\ ~IsExc(v)
        /\ Val(v) \in (0 - MaxA)..MaxA
        /\ a' = v
        /\ Over

\* the next command runs on the value the last one ran on
Again == Over /\ a' = a

Next ==
    \/ EnterText
    \/ EnterNative
    \/ CmdNegate
    \/ CmdPlus
    \/ CmdMinus
    \/ CmdTimes
    \/ CmdDiv
    \/ CmdMod
    \/ CmdAddMod
    \/ CmdMulMod
    \/ CmdPowMod
    \/ CmdModInverse
    \/ CmdExtendedGCD
    \/ Keep
    \/ Again

Spec == Init /\ [][Next]_vars


(***************************************************************************)
(* The calls behind one +, - or <, one call at a time: operator+ and        *)
(* operator- hand over to each other with flipped signs, operator- calls    *)
(* operator< and may call itself with the operands reversed.               *)
(***************************************************************************)
Call(fn, lhs, rhs) == [fn |-> fn, lhs |-> lhs, rhs |-> rhs]

Fns == {"operator+", "operator-", "operator<"}

\* a + b, a - b or a < b is evaluated
TopCall ==
    \E fn \in Fns, p \in Natives(MaxR), q \in Natives(MaxR) :
        /\ pc = "idle"
        /\ pc' = "call"
        /\ frame' = Call(fn, p, q)
        /\ stack' = <<>>
        /\ ret' = Zero
        /\ trail' = <<Call(fn, p, q)>>
        /\ UNCHANGED calcVars

\* the running call hands over to call c (return c;)
Redirect(c) ==
    /\ Len(trail) < MaxChain
    /\ pc' = "call"
    /\ frame' = c
    /\ trail' = Append(trail, c)
    /\ UNCHANGED <<stack, ret, calcVars>>

\* the running call returns v
Return(v) ==
    /\ pc' = "ret"
    /\ ret' = v
    /\ UNCHANGED <<frame, stack, trail, calcVars>>

Running(fn) == pc = "call" /\ frame.fn = fn

\* operator+, same signs: the carry loop
PlusSameSign ==
    /\ Running("operator+")
    /\ frame.lhs.neg = frame.rhs.neg
    /\ Return(AddSameSign(frame.lhs, frame.rhs))

\* operator+, *this negative: return other - (-(*this))
PlusThisNegative ==
    /\ Running("operator+")
    /\ frame.lhs.neg # frame.rhs.neg
    /\ frame.lhs.neg
    /\ Redirect(Call("operator-", frame.rhs, Negate(frame.lhs)))

\* operator+, other negative: return *this - (-other)
PlusOtherNegative ==
    /\ Running("operator+")
    /\ frame.lhs.neg # frame.rhs.neg
    /\ ~frame.lhs.neg
    /\ Redirect(Call("operator-", frame.lhs, Negate(frame.rhs)))

\* operator-, different signs: return *this + (-other)
MinusDifferentSigns ==
    /\ Running("operator-")
    /\ frame.lhs.neg # frame.rhs.neg
    /\ Redirect(Call("operator+", frame.lhs, Negate(frame.rhs)))

\* operator-, both negative: return (-other) - (-(*this))
MinusBothNegative ==
    /\ Running("operator-")
    /\ frame.lhs.neg = frame.rhs.neg
    /\ frame.lhs.neg
    /\ Redirect(Call("operator-", Negate(frame.rhs), Negate(frame.lhs)))

\* operator-, neither negative: *this < other is evaluated
MinusCompare ==
    /\ Running("operator-")
    /\ frame.lhs.neg = frame.rhs.neg
    /\ ~frame.lhs.neg
    /\ Len(trail) < MaxChain
    /\ pc' = "call"
    /\ frame' = Call("operator<", frame.lhs, frame.rhs)
    /\ stack' = Append(stack, [k |-> "compared", call |-> frame])
    /\ trail' = Append(trail, Call("operator<", frame.lhs, frame.rhs))
    /\ UNCHANGED <<ret, calcVars>>

\* operator<, different signs
LessDifferentSigns ==
    /\ Running("operator<")
    /\ frame.lhs.neg # frame.rhs.neg
    /\ Return(frame.lhs.neg)

\* operator<, both negative: return (-other) < (-(*this))
LessBothNegative ==
    /\ Running("operator<")
    /\ frame.lhs.neg = frame.rhs.neg
    /\ frame.lhs.neg
    /\ Redirect(Call("operator<", Negate(frame.rhs), Negate(frame.lhs)))

\* operator<, neither negative: the lengths and the digit loop
LessDigits ==
    /\ Running("operator<")
    /\ frame.lhs.neg = frame.rhs.neg
    /\ ~frame.lhs.neg
    /\ Return(LessMagnitude(frame.lhs, frame.rhs))

Waiting(k) == pc = "ret" /\ stack # <<>> /\ Last(stack).k = k

\* the call of operator- on the operands of c, the same way round
ReversedCall_same(c) == Call("operator-", c.lhs, c.rhs)

\* other - *this, for the call c of operator-
ReversedCall(c) == Call("operator-", c.rhs, c.lhs)

\* operator-, *this < other: return -(other - *this)
MinusReversed ==
    /\ Waiting("compared")
    /\ ret
    /\ Len(trail) < MaxChain
    /\ pc' = "call"
    /\ frame' = ReversedCall(Last(stack).call)
    /\ stack' = Append(Front(stack), [k |-> "negate", call |-> Last(stack).call])
    /\ trail' = Append(trail, ReversedCall(Last(stack).call))
    /\ UNCHANGED <<ret, calcVars>>

\* operator-, other <= *this: the borrow loop
MinusDigits ==
    /\ Waiting("compared")
    /\ ~ret
    /\ ret' = SubMagnitude(Last(stack).call.lhs, Last(stack).call.rhs)
    /\ frame' = Last(stack).call
    /\ stack' = Front(stack)
    /\ UNCHANGED <<pc, trail, calcVars>>

\* operator-: other - *this has returned and is negated
NegateReturned ==
    /\ Waiting("negate")
    /\ ret' = Negate(ret)
    /\ frame' = Last(stack).call
    /\ stack' = Front(stack)
    /\ UNCHANGED <<pc, trail, calcVars>>

\* the top-level call returns
Finish ==
    /\ pc = "ret"
    /\ stack = <<>>
    /\ pc' = "done"
    /\ UNCHANGED <<frame, stack, ret, trail, calcVars>>

\* the returned value is consumed
Discard ==
    /\ pc = "done"
    /\ pc' = "idle"
    /\ frame' = [fn |-> "none", lhs |-> Zero, rhs |-> Zero]
    /\ stack' = <<>>
    /\ ret' = Zero
    /\ trail' = <<>>
    /\ UNCHANGED calcVars

\* one step of a call that has not returned to its top-level caller
StepTrace ==
    \/ PlusSameSign
    \/ PlusThisNegative
    \/ PlusOtherNegative
    \/ MinusDifferentSigns
    \/ MinusBothNegative
    \/ MinusCompare
    \/ LessDifferentSigns
    \/ LessBothNegative
    \/ LessDigits
    \/ MinusReversed
    \/ MinusDigits
    \/ NegateReturned
    \/ Finish

NextTrace == TopCall \/ StepTrace \/ Discard

SpecTrace == Init /\ [][NextTrace]_vars

(***************************************************************************)
(* Properties of the calculator (checked under Spec).                      *)
(***************************************************************************)
\* the integer quotient of the magnitudes
MagnitudeQuotient == Abs(Val(a)) \div Abs(Val(b))

\* (a / b) * b + r, for the result r of a % b
Recomposed == Plus(Times(Div(a, b), b), res)

\* a is negative and not a multiple of b
NegativeInexact == a.neg /\ EuclidMod(Val(a), Val(b)) # 0

\* C1 as stated: division identity: after a % b with b # 0,
\* (a / b) * b + (a % b) == a, for every sign combination, also when a is not
\* a multiple of b.
C1_DivisionIdentity ==
    (op = "%" /\ ~isZero(b)) =>
        /\ ~IsExc(res)
        /\ Eq(Recomposed, a)

\* C1 as amended: for b # 0, (a / b) * b + (a % b) == a when a >= 0 or a is a
\* multiple of b, and (a / b) * b + (a % b) == a + |b| when a is negative and
\* not a multiple of b (the quotient truncates, the remainder is shifted).
C1_DivisionIdentityAmended ==
    (op = "%" /\ ~isZero(b)) =>
        /\ ~IsExc(res)
        /\ (~NegativeInexact => Eq(Recomposed, a))
        /\ (NegativeInexact => Val(Recomposed) = Val(a) + Abs(Val(b)))

\* a negative three-digit dividend that a negative divisor does not divide
C1_Witness ==
    /\ op = "%"
    /\ Len(a.digits) = 3
    /\ b.neg
    /\ NegativeInexact
    /\ ~IsExc(res)
    /\ Val(Recomposed) = Val(a) + Abs(Val(b))

\* C2: modular inverse correctness: whenever a.modInverse(m) returns a value r
\* for a non-zero modulus m (m = 1 and negative m included), (a * r) % m == 1.
C2_InverseCorrect ==
    (op = "inverse" /\ ~isZero(m) /\ ~IsExc(res)) =>
        Eq(Mod(Times(a, res), m), FromInt(1))

\* C3: Bezout identity: extendedGCD(a, b, x, y) returns g with a*x + b*y == g
\* for operands of any sign, and (a, 1, 0) when b = 0.
C3_Bezout ==
    (op = "egcd") =>
        /\ Eq(Plus(Times(a, x), Times(b, y)), res)
        /\ (isZero(b) => Eq(res, a) /\ Val(x) = 1 /\ Val(y) = 0)

\* C4: remainder range: for b # 0 the result r of a % b satisfies
\* 0 <= r < |b|, also when the dividend or the divisor is negative.
C4_RemainderRange ==
    (op = "%" /\ ~isZero(b)) =>
        /\ ~IsExc(res)
        /\ 0 <= Val(res)
        /\ Val(res) < Abs(Val(b))

\* a negative dividend and a positive divisor left a positive remainder
C4_Witness == op = "%" /\ a.neg /\ ~b.neg /\ ~IsExc(res) /\ Val(res) > 0

\* C5: division by zero: a / 0 and a % 0 throw "Division by zero" for every a
\* (a = 0 included), and addMod, mulMod, powMod and modInverse throw it too
\* when their modulus is zero; none returns a value.
C5_DivisionByZero ==
    /\ (op \in {"/", "%"} /\ isZero(b)) => res = DivisionByZero
    /\ (op \in {"addmod", "mulmod", "pow", "inverse"} /\ isZero(m)) =>
           res = DivisionByZero

\* 0 / 0 threw
C5_Witness == op = "/" /\ isZero(a) /\ isZero(b) /\ res = DivisionByZero

\* C6: no inverse: for m # 0, if gcd(a mod m, m) # 1 then a.modInverse(m)
\* throws "Modular inverse does not exist" and returns no value.
C6_NoInverse ==
    (op = "inverse" /\ ~isZero(m)
        /\ Gcd(EuclidMod(Val(a), Val(m)), Val(m)) # 1) =>
        res = NoInverse

\* a non-zero multiple of a modulus m > 1 had no inverse
C6_Witness ==
    /\ op = "inverse"
    /\ Val(m) > 1
    /\ ~isZero(a)
    /\ EuclidMod(Val(a), Val(m)) = 0
    /\ res = NoInverse

\* C7: powMod correctness: for e >= 0 and m >= 1, base.powMod(e, m) is
\* (base^e) mod m by repeated multiplication, with the remainder in 0..m-1;
\* it is 0 when m = 1, and 1 when e = 0 and m > 1.
C7_PowMod ==
    (op = "pow" /\ Val(m) >= 1) =>
        /\ ~IsExc(res)
        /\ Val(res) = EuclidMod(NaivePow(Val(a), Val(b)), Val(m))
        /\ (Val(m) = 1 => isZero(res))
        /\ (Val(b) = 0 /\ Val(m) > 1 => isOne(res))

\* a negative base was raised to an exponent of several bits
C7_Witness ==
    /\ op = "pow"
    /\ a.neg
    /\ Val(b) >= 3
    /\ Val(m) > 2
    /\ ~IsExc(res)
    /\ Val(res) > 1

\* C8: truncating division: for b # 0, a / b has magnitude floor(|a| / |b|)
\* and is negative exactly when the signs differ and that magnitude is not
\* zero; every digit the long-division loop produces is in 0..9.
C8_TruncatingDivision ==
    (op = "/" /\ ~isZero(b)) =>
        /\ ~IsExc(res)
        /\ Abs(Val(res)) = MagnitudeQuotient
        /\ res.neg = (a.neg # b.neg /\ MagnitudeQuotient # 0)
        /\ Val(res) = TruncDiv(Val(a), Val(b))
        /\ (~isZero(a) /\ ~Less(BigNum(a.digits, FALSE), BigNum(b.digits, FALSE)) =>
               \A i \in 1..Len(QuotientDigits(a, b)) :
                   QuotientDigits(a, b)[i] \in 0..9)

\* a negative three-digit dividend, a positive two-digit divisor that does
\* not divide it
C8_Witness ==
    /\ op = "/"
    /\ a.neg
    /\ ~b.neg
    /\ Len(a.digits) = 3
    /\ Len(b.digits) = 2
    /\ ~IsExc(res)
    /\ Val(res) < 0
    /\ Val(res) * Val(b) # Val(a)

NoRevisit ==
    \A i \in 1..Len(trail) : \A j \in 1..Len(trail) :
        i # j => trail[i] # trail[j]

\* the value the top-level call must return
Expected ==
    IF trail[1].fn = "operator+" THEN Val(trail[1].lhs) + Val(trail[1].rhs)
    ELSE IF trail[1].fn = "operator-" THEN Val(trail[1].lhs) - Val(trail[1].rhs)
    ELSE Val(trail[1].lhs) < Val(trail[1].rhs)

Returned == IF trail[1].fn = "operator<" THEN ret ELSE Val(ret)

\* C10: termination of the mutual recursion: a call of operator+ or operator-
\* (or operator<) on canonical operands makes at most six calls in all, none
\* of them twice, always has a next step until it has returned, and returns
\* the sum, difference or comparison from a digit loop.
C10_Termination ==
    /\ NoRevisit
    /\ Len(trail) <= 6
    /\ (pc \in {"call", "ret"} => ENABLED StepTrace)
    /\ (pc = "done" => Returned = Expected)

\* a + b with a negative and |b| < |a| went through operator-, operator<,
\* the reversed operator- and operator< again
C10_Witness ==
    /\ pc = "done"
    /\ Len(trail) = 5
    /\ trail[1].fn = "operator+"
    /\ trail[1].lhs.neg
    /\ trail[5].fn = "operator<"
    /\ Val(ret) < 0

=============================================================================
